---- MODULE Spec2Model ----
(***************************************************************************)
(* A model of tplr/chain.py: ChainManager, the component that keeps the    *)
(* in-memory index of bucket commitments in step with the chain, publishes *)
(* the local bucket when the chain disagrees with it, and follows the      *)
(* block height.                                                           *)
(*                                                                         *)
(* Text is a sequence of code points, bytes are 0..255, and a string of    *)
(* hex characters is a sequence of characters "0", ..., "f", "x", "g".     *)
(***************************************************************************)
EXTENDS Integers, Sequences, FiniteSets, TLC

(***************************************************************************)
(* Program constants.                                                      *)
(***************************************************************************)
CommitmentLen == 128
AccountEnd == 32
AccessKeyEnd == 64
StakeThreshold == 10000
Netuid == 3

(***************************************************************************)
(* Bounds of the model.                                                    *)
(***************************************************************************)
MaxPublish == 2
MaxSync == 1
MaxBlock == 250

(***************************************************************************)
(* Strings.                                                                *)
(***************************************************************************)
Rep(c, n) == [i \in 1..n |-> c]

Slice(s, from, to) == [i \in 1..(to - from) |-> s[from + i]]

HexDigits == <<"0", "1", "2", "3", "4", "5", "6", "7",
               "8", "9", "a", "b", "c", "d", "e", "f">>
IsHexDigit(c) == \E n \in 1..16 : HexDigits[n] = c
HexValue(c) == (CHOOSE n \in 1..16 : HexDigits[n] = c) - 1

\* "0x" in front of a string of hex characters
HexMarker == <<"0", "x">>

\* str.startswith("0x")
StartsWith0x(s) == Len(s) >= 2 /\ s[1] = "0" /\ s[2] = "x"

\* bytes.fromhex: a pair of hex digits per byte; an odd number of characters
\* or a character that is no hex digit raises ValueError
FromHexOk(h) == Len(h) % 2 = 0 /\ \A i \in 1..Len(h) : IsHexDigit(h[i])

FromHex(h) ==
    [i \in 1..(Len(h) \div 2) |-> 16 * HexValue(h[2 * i - 1]) + HexValue(h[2 * i])]

\* bytes.hex, the other direction, as the chain stores a committed text
ToHex(bs) ==
    [i \in 1..(2 * Len(bs)) |->
        IF i % 2 = 1 THEN HexDigits[(bs[(i + 1) \div 2] \div 16) + 1]
        ELSE HexDigits[(bs[i \div 2] % 16) + 1]]

\* UTF-8, the one-byte and two-byte forms: a byte below 0x80 is its own code
\* point, a lead byte 0xC2..0xDF takes one continuation byte 0x80..0xBF.
\* Every other byte the model's payloads hold (0x80..0xC1, 0xF5..0xFF) is
\* invalid wherever it stands.
IsLead2(b) == b >= 194 /\ b <= 223
IsCont(b) == b >= 128 /\ b <= 191

\* each byte is a character of its own, or a lead byte before a
\* continuation byte, or a continuation byte after a lead byte
Utf8DecodeOk(bs) ==
    \A i \in 1..Len(bs) :
        \/ bs[i] < 128
        \/ IsLead2(bs[i]) /\ i < Len(bs) /\ IsCont(bs[i + 1])
        \/ IsCont(bs[i]) /\ i > 1 /\ IsLead2(bs[i - 1])

\* the characters of bs[lo..hi], a whole number of characters
RECURSIVE Utf8Range(_, _, _)
Utf8Range(bs, lo, hi) ==
    IF lo > hi THEN <<>>
    ELSE IF lo = hi THEN <<bs[lo]>>
    ELSE IF hi = lo + 1 /\ IsLead2(bs[lo]) THEN <<(bs[lo] - 192) * 64 + (bs[hi] - 128)>>
    ELSE LET mid == (lo + hi) \div 2
             cut == IF IsCont(bs[mid + 1]) THEN mid - 1 ELSE mid
         IN Utf8Range(bs, lo, cut) \o Utf8Range(bs, cut + 1, hi)

Utf8Decode(bs) == Utf8Range(bs, 1, Len(bs))

\* str.encode, for code points below 0x800
RECURSIVE Utf8EncodeRange(_, _, _)
Utf8EncodeRange(t, lo, hi) ==
    IF lo > hi THEN <<>>
    ELSE IF lo = hi
    THEN IF t[lo] < 128 THEN <<t[lo]>>
         ELSE <<192 + (t[lo] \div 64), 128 + (t[lo] % 64)>>
    ELSE Utf8EncodeRange(t, lo, (lo + hi) \div 2)
            \o Utf8EncodeRange(t, (lo + hi) \div 2 + 1, hi)

Utf8Encode(t) == Utf8EncodeRange(t, 1, Len(t))

\* str.strip(): white space goes from both ends
IsSpace(c) == c \in {9, 10, 11, 12, 13, 28, 29, 30, 31, 32, 133, 160}

Strip(t) ==
    LET keep == {i \in 1..Len(t) : ~IsSpace(t[i])} IN
    IF keep = {} THEN <<>>
    ELSE SubSeq(t, CHOOSE i \in keep : \A j \in keep : i <= j,
                   CHOOSE i \in keep : \A j \in keep : i >= j)

(***************************************************************************)
(* Bucket (tplr/schemas.py): four text fields.                             *)
(***************************************************************************)
Bucket(name, account_id, access_key_id, secret_access_key) ==
    [name |-> name, account_id |-> account_id,
     access_key_id |-> access_key_id, secret_access_key |-> secret_access_key]

NoBucket == [name |-> <<>>, account_id |-> <<>>,
             access_key_id |-> <<>>, secret_access_key |-> <<>>]

\* Bucket(name=c[:32], account_id=c[:32], access_key_id=c[32:64],
\*        secret_access_key=c[64:])
BucketFromConcatenated(c) ==
    Bucket(Slice(c, 0, AccountEnd), Slice(c, 0, AccountEnd),
           Slice(c, AccountEnd, AccessKeyEnd), Slice(c, AccessKeyEnd, Len(c)))

(***************************************************************************)
(* A dict, in insertion order: a sequence of [k, v] with no key twice.     *)
(***************************************************************************)
DictKeys(d) == [i \in 1..Len(d) |-> d[i].k]

DictHas(d, k) == \E i \in 1..Len(d) : d[i].k = k

\* d[k], for a key d holds
DictGet(d, k) == d[CHOOSE i \in 1..Len(d) : d[i].k = k].v

DictPut(d, k, v) ==
    IF DictHas(d, k)
    THEN [i \in 1..Len(d) |-> IF d[i].k = k THEN [k |-> k, v |-> v] ELSE d[i]]
    ELSE Append(d, [k |-> k, v |-> v])

\* the truth value of a dict: an empty one is false
Truthy_Always(d) == TRUE
Truthy(d) == d # <<>>

(***************************************************************************)
(* The metagraph, owned by the caller: hotkeys, uids and stakes S, three   *)
(* parallel lists.                                                         *)
(***************************************************************************)
Min(a, b) == IF a < b THEN a ELSE b

\* list.index: the position (from 0) of the first occurrence
InList(l, x) == \E i \in 1..Len(l) : l[i] = x
ListIndex(l, x) == (CHOOSE i \in 1..Len(l) : l[i] = x /\ \A j \in 1..(i - 1) : l[j] # x) - 1

\* dict(zip(keys, vals)): zip stops at the shorter list, a later pair wins
ZipHas(keys, vals, x) == \E i \in 1..Min(Len(keys), Len(vals)) : keys[i] = x
ZipGet(keys, vals, x) ==
    vals[CHOOSE i \in 1..Min(Len(keys), Len(vals)) :
            keys[i] = x /\ \A j \in (i + 1)..Min(Len(keys), Len(vals)) : keys[j] # x]

(***************************************************************************)
(* The chain's commitment storage: per hotkey, what query_map gives as     *)
(* value.value.  shape says what info.fields holds:                        *)
(*   "nofields"  no fields at all        "notdict"   fields[0] is no dict  *)
(*   "emptydict" fields[0] is {}         "nonstr"    the field is no str   *)
(*   "str"       the field is the string v of hex characters               *)
(***************************************************************************)
NoEntry == [shape |-> "absent", v |-> <<>>]
Envelope(shape, v) == [shape |-> shape, v |-> v]

\* what the chain holds after subtensor.commit(wallet, netuid, text)
Stored(text) == Envelope("str", HexMarker \o ToHex(Utf8Encode(text)))

\* the same field as a ledger gives it that leaves the marker out
StoredBare(text) == Envelope("str", ToHex(Utf8Encode(text)))

\* subtensor.get_commitment(netuid, uid) on the entry e of the hotkey at uid:
\* the text of e, with the two marker characters cut off; raises otherwise
ReadHex(e) == Slice(e.v, 2, Len(e.v))
PointRead(e) ==
    IF /\ e.shape = "str"
       /\ Len(e.v) >= 2
       /\ FromHexOk(ReadHex(e))
       /\ Utf8DecodeOk(FromHex(ReadHex(e)))
    THEN [ok |-> TRUE, text |-> Utf8Decode(FromHex(ReadHex(e)))]
    ELSE [ok |-> FALSE, text |-> <<>>]

(***************************************************************************)
(* ChainManager: the pure parts.                                           *)
(***************************************************************************)

\* commit: the text handed to subtensor.commit
CommitPayload_NameFirst(b) == b.name \o b.access_key_id \o b.secret_access_key
CommitPayload(b) == b.account_id \o b.access_key_id \o b.secret_access_key

(***************************************************************************)
(* The inputs the model draws from.                                        *)
(***************************************************************************)
AcctA == Rep(65, AccountEnd)
AcctB == Rep(66, AccountEnd)
Key1 == Rep(107, AccessKeyEnd - AccountEnd)
Secret1 == Rep(115, CommitmentLen - AccessKeyEnd)
Secret2 == Rep(116, CommitmentLen - AccessKeyEnd)
SecretShort == Rep(115, 40)
NameOther == <<109, 121>>
ShortText == Rep(97, 100)

\* the buckets a manager may be given: widths as the data model states them
FullBucket == Bucket(AcctA, AcctA, Key1, Secret1)
ShortSecretBucket == Bucket(AcctA, AcctA, Key1, SecretShort)
NamedBucket == Bucket(NameOther, AcctA, Key1, Secret1)
Buckets == {FullBucket, ShortSecretBucket, NamedBucket}

LocalKey == "k1"
Hotkeys == {"k1", "k2", "k3"}
Publishers == {"k2"}

\* the metagraph the manager is built with, and what the caller may change
\* it to
FirstMetagraph ==
    [hotkeys |-> <<"k1", "k2", "k3">>, uids |-> <<0, 1, 2>>, S |-> <<500, 20000, 9999>>]
Metagraphs ==
    { FirstMetagraph,
      [hotkeys |-> <<"k3", "k1", "k2">>, uids |-> <<0, 1, 2>>, S |-> <<10001, 10000, 0>>],
      [hotkeys |-> <<"k2", "k3">>, uids |-> <<0, 1>>, S |-> <<10000, 10001>>] }

\* what other participants publish
PeerPayloads ==
    { Stored(AcctB \o Key1 \o Secret2),
      Stored(ShortText),
      Envelope("str", HexMarker \o <<"6", "1", "g", "1">>),
      Envelope("nofields", <<>>),
      Envelope("emptydict", <<>>) }

\* what the chain may hold for the local key when the manager is built
LocalPayloads == { NoEntry, Stored(AcctA \o Key1 \o Secret2) }

\* records of the widths the data model states: an account id and an access
\* key id of 32 characters, a secret of 0 to 64 characters of any content
CodecSecrets ==
    { <<>>, Rep(115, 1), SecretShort, Rep(115, 63), Secret1,
      Rep(115, 63) \o <<32>>, Rep(115, 63) \o <<233>> }
CodecBuckets == { Bucket(AcctA, AcctA, Key1, secret) : secret \in CodecSecrets }

\* texts a ledger may deliver for another participant: 0, 100, 127, 128,
\* 129 and 130 characters, two of them 128 characters between white space
GoodText == AcctB \o Key1 \o Secret2
CodecTexts ==
    { <<>>, ShortText, Slice(GoodText, 0, 127), GoodText,
      GoodText \o <<33>>, GoodText \o <<10>>, <<32>> \o GoodText \o <<32>> }
CodecPayloads ==
    {Stored(text) : text \in CodecTexts}
        \cup {StoredBare(GoodText), StoredBare(GoodText \o <<10>>)}

\* every value the chain may hold for a hotkey
Envelopes ==
    PeerPayloads \cup LocalPayloads \cup CodecPayloads
        \cup {Stored(CommitPayload(b)) : b \in Buckets \cup CodecBuckets}
        \cup {StoredBare(CommitPayload(b)) : b \in CodecBuckets}

\* the values above, worked out once for every value the chain may hold
PointReads == [e \in Envelopes |-> PointRead(e)]

\* get_commitment(uid).  rpc is FALSE when the call to the chain fails.
\* ok: a Bucket is returned; otherwise an exception is raised.  read says
\* whether the chain gave a text, and text is what it gave.
get_commitment(ch, mg, uid, rpc) ==
    IF ~rpc \/ uid + 1 \notin 1..Len(mg.hotkeys) \/ ~PointReads[ch[mg.hotkeys[uid + 1]]].ok
    THEN [ok |-> FALSE, read |-> "failed", text |-> <<>>, bucket |-> NoBucket]
    ELSE LET concatenated == PointReads[ch[mg.hotkeys[uid + 1]]].text IN
         IF Len(concatenated) # CommitmentLen
         THEN [ok |-> FALSE, read |-> "ok", text |-> concatenated, bucket |-> NoBucket]
         ELSE [ok |-> TRUE, read |-> "ok", text |-> concatenated,
               bucket |-> BucketFromConcatenated(concatenated)]

\* try_commit: current_str != commitment_str
CommitmentDiffers_Always(commitment, b) == TRUE
CommitmentDiffers(commitment, b) ==
    b.name \o b.access_key_id \o b.secret_access_key
        # commitment.name \o commitment.access_key_id \o commitment.secret_access_key

\* get_commitments, the body of the loop for the value of a known hotkey:
\* "skip" is continue, "raise" an exception that leaves the loop and the
\* function, "put" is commitments[uid] = bucket
EntryOutcome(value) ==
    IF value.shape \in {"nofields", "notdict"} THEN [act |-> "skip", bucket |-> NoBucket]
    ELSE IF value.shape = "emptydict" THEN [act |-> "raise", bucket |-> NoBucket]
    ELSE IF value.shape = "nonstr" THEN [act |-> "raise", bucket |-> NoBucket]
    ELSE
      LET field_value == IF StartsWith0x(value.v) THEN Slice(value.v, 2, Len(value.v))
                         ELSE value.v
      IN
      IF ~FromHexOk(field_value) THEN [act |-> "skip", bucket |-> NoBucket]
      ELSE IF ~Utf8DecodeOk(FromHex(field_value)) THEN [act |-> "skip", bucket |-> NoBucket]
      ELSE
        LET concatenated == Strip(Utf8Decode(FromHex(field_value))) IN
        IF Len(concatenated) # CommitmentLen THEN [act |-> "skip", bucket |-> NoBucket]
        ELSE [act |-> "put", bucket |-> BucketFromConcatenated(concatenated)]

EntryOutcomes == [e \in Envelopes |-> EntryOutcome(e)]

\* if hotkey not in hotkey_to_uid: continue
SkipsHotkey_Never(mg, hotkey) == FALSE
SkipsHotkey(mg, hotkey) == ~ZipHas(mg.hotkeys, mg.uids, hotkey)

\* get_commitments: one pass over result, the list query_map gave, of
\* [key, value].  raised: an exception left the function; the lookup
\* hotkey_to_uid[hotkey] is outside the try block.
RECURSIVE GetCommitmentsLoop(_, _, _)
GetCommitmentsLoop(result, mg, acc) ==
    IF result = <<>> THEN [raised |-> FALSE, commitments |-> acc]
    ELSE
      LET hotkey == Head(result).key
          outcome == EntryOutcomes[Head(result).value]
      IN
      IF SkipsHotkey(mg, hotkey) THEN GetCommitmentsLoop(Tail(result), mg, acc)
      ELSE IF ~ZipHas(mg.hotkeys, mg.uids, hotkey) THEN [raised |-> TRUE, commitments |-> <<>>]
      ELSE IF outcome.act = "skip" THEN GetCommitmentsLoop(Tail(result), mg, acc)
      ELSE IF outcome.act = "raise" THEN [raised |-> TRUE, commitments |-> <<>>]
      ELSE GetCommitmentsLoop(Tail(result), mg,
               DictPut(acc, ZipGet(mg.hotkeys, mg.uids, hotkey), outcome.bucket))

get_commitments(result, mg) == GetCommitmentsLoop(result, mg, <<>>)

\* update_peers_with_buckets
StakeOf(mg, uid) == IF ZipHas(mg.uids, mg.S, uid) THEN ZipGet(mg.uids, mg.S, uid) ELSE 0

update_peers_with_buckets_Strict(cs, mg) ==
    SelectSeq(DictKeys(cs), LAMBDA uid : StakeOf(mg, uid) < StakeThreshold)
update_peers_with_buckets(cs, mg) ==
    SelectSeq(DictKeys(cs), LAMBDA uid : StakeOf(mg, uid) <= StakeThreshold)

\* int(a / b), for a >= 0 and b > 0
IntDiv(a, b) == a \div b

block_to_window(block, hp) == IntDiv(block, hp.window_length)

(***************************************************************************)
(* What the documentation calls a record that decodes: a string of hex     *)
(* characters, with or without the marker, that carries a text of 128      *)
(* characters.  (The claims are stated with these; the code is not.)       *)
(***************************************************************************)
WireHex(e) == IF StartsWith0x(e.v) THEN Slice(e.v, 2, Len(e.v)) ELSE e.v
WellFormedWire(e) ==
    /\ e.shape = "str"
    /\ FromHexOk(WireHex(e))
    /\ Utf8DecodeOk(FromHex(WireHex(e)))
    /\ Len(Utf8Decode(FromHex(WireHex(e)))) = CommitmentLen
WellFormedSet == {e \in Envelopes : WellFormedWire(e)}
WellFormed(e) == e \in WellFormedSet
KnownKey(mg, h) == \E i \in 1..Len(mg.hotkeys) : mg.hotkeys[i] = h
SlotOf(mg, h) == mg.uids[CHOOSE i \in 1..Len(mg.hotkeys) : mg.hotkeys[i] = h]
Decodes(mg, entry) == KnownKey(mg, entry.key) /\ WellFormed(entry.value)

(***************************************************************************)
(* State.                                                                  *)
(***************************************************************************)
VARIABLES
    metagraph,      \* self.metagraph, owned and changed by the caller
    hparams,        \* self.hparams
    wallet,         \* self.wallet: the hotkey address, "None" without one
    bucket,         \* self.bucket, NoBucket without one
    chain,          \* the chain's commitment storage, per hotkey
    current_block,  \* self.current_block
    current_window, \* self.current_window
    commitments,    \* self.commitments
    peers,          \* self.peers
    fetch_task,     \* self._fetch_task: "None", or where the task stands
    pc,             \* where __init__ stands
    hpc,            \* where the block handler stands
    event,          \* the block number of the latest notification, -1 before it
    lastPass,       \* what the latest try_commit did
    lastRefresh,    \* what the latest refresh did
    published,      \* how many entries other participants have published
    synced,         \* how often the caller has changed the metagraph
    new_window_event, \* self.new_window_event: TRUE when the event is set
    stop_event,     \* self.stop_event: "undefined", or an event "clear" or "set"
    listener,       \* where block_listener stands, "None" before it is called
    lastRead,       \* what the latest direct call of a read method returned
    tasks           \* how many tasks start_commitment_fetcher has created

vars == <<metagraph, hparams, wallet, bucket, chain, current_block, current_window,
          commitments, peers, fetch_task, pc, hpc, event, lastPass, lastRefresh,
          published, synced, new_window_event, stop_event, listener, lastRead,
          tasks>>

clockVars == <<hparams, current_block, current_window, hpc, event, new_window_event>>
listenerVars == <<stop_event, listener>>
taskVars == <<fetch_task, tasks>>
envVars == <<metagraph, chain, published, synced>>
identityVars == <<wallet, bucket>>
indexVars == <<commitments, peers>>

NoPass ==
    [ran |-> FALSE, quiet |-> FALSE, found |-> FALSE, read |-> "none",
     text |-> <<>>, submits |-> <<>>, accepted |-> FALSE, raised |-> "None"]

NoRefresh ==
    [kind |-> "none", size |-> 0, failed |-> FALSE, raised |-> FALSE,
     anyDecodes |-> FALSE, allKept |-> TRUE, replaced |-> FALSE, dropped |-> FALSE,
     unknown |-> FALSE]

NoRead ==
    [op |-> "none", uid |-> -1, answered |-> FALSE, ok |-> FALSE,
     bucket |-> NoBucket, index |-> <<>>]

\* __init__, up to the first call it makes
InitManager ==
    /\ current_block = 0
    /\ current_window = 0
    /\ commitments = <<>>
    /\ peers = <<>>
    /\ hpc = "idle"
    /\ event = -1
    /\ lastPass = NoPass
    /\ lastRefresh = NoRefresh
    /\ published = 0
    /\ synced = 0
    /\ new_window_event = FALSE
    /\ lastRead = NoRead

\* __init__ defines no stop_event, and block_listener has not been called
NoListener ==
    /\ stop_event = "undefined"
    /\ listener = "None"

\* self._fetch_task = None, while __init__ runs
NoTask ==
    /\ fetch_task = "None"
    /\ tasks = 0

\* __init__ has returned: the task start_commitment_fetcher made is there
Built ==
    /\ pc = "constructed"
    /\ fetch_task = "running"
    /\ tasks = 1

\* a manager built with a wallet and a bucket
Init ==
    /\ metagraph \in Metagraphs
    /\ hparams = [blocks_per_window |-> 100, window_length |-> 100]
    /\ wallet = LocalKey
    /\ bucket \in Buckets
    /\ \E p \in LocalPayloads, q \in {NoEntry, Stored(AcctB \o Key1 \o Secret2)} :
          chain = [h \in Hotkeys |-> IF h = LocalKey THEN p ELSE IF h = "k2" THEN q ELSE NoEntry]
    /\ pc = "try_commit"
    /\ InitManager
    /\ NoListener
    /\ NoTask

\* a manager built without them: __init__ skips try_commit
InitRefresh ==
    /\ metagraph = FirstMetagraph
    /\ hparams = [blocks_per_window |-> 100, window_length |-> 100]
    /\ wallet = "None"
    /\ bucket = NoBucket
    /\ \E p \in LocalPayloads, q \in {NoEntry, Stored(AcctB \o Key1 \o Secret2)} :
          chain = [h \in Hotkeys |-> IF h = LocalKey THEN p ELSE IF h = "k3" THEN q ELSE NoEntry]
    /\ pc = "fetch_commitments"
    /\ InitManager
    /\ NoListener
    /\ NoTask

(***************************************************************************)
(* try_commit(self.wallet, self.bucket), a whole pass.  rpc: the read of   *)
(* the chain answers; outcome: what subtensor.commit does if it is called. *)
(*   "ok" the chain stores the text, "rejected" it returns without storing *)
(*   it, "raises" it raises.                                               *)
(* The exception handler of try_commit calls commit, and what commit       *)
(* raises leaves try_commit.                                               *)
(***************************************************************************)
SubmitOutcomes == {"ok", "rejected", "raises"}

PassFound == InList(metagraph.hotkeys, wallet)

PassRead(rpc) ==
    get_commitment(chain, metagraph, ListIndex(metagraph.hotkeys, wallet), rpc)

\* an exception is raised in the try block: by list.index, by
\* get_commitment, or by the comparison
PassCommits(rpc) ==
    \/ ~PassFound
    \/ ~PassRead(rpc).ok
    \/ CommitmentDiffers(PassRead(rpc).bucket, bucket)

PassRaises(rpc, outcome) == PassCommits(rpc) /\ outcome = "raises"

\* what the chain holds after commit(wallet, bucket)
Committed == [b \in Buckets \cup CodecBuckets |-> Stored(CommitPayload(b))]
CommittedBare == [b \in CodecBuckets |-> StoredBare(CommitPayload(b))]

try_commit(rpc, outcome) ==
    /\ chain' = IF PassCommits(rpc) /\ outcome = "ok"
                THEN [chain EXCEPT ![wallet] = Committed[bucket]]
                ELSE chain
    /\ lastPass' =
         [ran |-> TRUE,
          quiet |-> TRUE,
          found |-> PassFound,
          read |-> IF PassFound THEN PassRead(rpc).read ELSE "none",
          text |-> IF PassFound THEN PassRead(rpc).text ELSE <<>>,
          submits |-> IF PassCommits(rpc)
                      THEN <<[netuid |-> Netuid, data |-> CommitPayload(bucket),
                              hotkey |-> wallet]>>
                      ELSE <<>>,
          accepted |-> PassCommits(rpc) /\ outcome = "ok",
          raised |-> IF PassRaises(rpc, outcome) THEN "PublishError" ELSE "None"]
    /\ UNCHANGED <<metagraph, published, synced, identityVars, listenerVars, lastRead, clockVars, indexVars,
                   taskVars, lastRefresh>>

\* __init__: asyncio.run(self.try_commit(self.wallet, self.bucket))
ConstructTryCommit ==
    /\ pc = "try_commit"
    /\ \E rpc \in BOOLEAN, outcome \in SubmitOutcomes :
          /\ try_commit(rpc, outcome)
          /\ pc' = IF PassRaises(rpc, outcome) THEN "raised" ELSE "fetch_commitments"

\* a later call of try_commit by the owner of the manager
CallTryCommit ==
    /\ pc = "constructed"
    /\ wallet # "None" /\ bucket # NoBucket
    /\ \E rpc \in BOOLEAN, outcome \in SubmitOutcomes : try_commit(rpc, outcome)
    /\ UNCHANGED pc

(***************************************************************************)
(* Refresh.  result: the list query_map gives, the chain's entries in an   *)
(* order of the chain's choosing; ledger: FALSE when the call raises.      *)
(***************************************************************************)
Present == {h \in Hotkeys : chain[h] # NoEntry}

Results ==
    { [i \in 1..Cardinality(Present) |-> [key |-> order[i], value |-> chain[order[i]]]] :
        order \in { o \in [1..Cardinality(Present) -> Present] :
                        \A i, j \in 1..Cardinality(Present) : o[i] = o[j] => i = j } }

RefreshRaises(ledger, result) == ~ledger \/ get_commitments(result, metagraph).raised

Fetched(result) == get_commitments(result, metagraph).commitments

\* what a dict would hold had the fetched entries been put into the old one
MergedInto(old, new) == new \o SelectSeq(old, LAMBDA entry : ~DictHas(new, entry.k))

StoreCommitments_Merge(ledger, result) ==
    IF ~RefreshRaises(ledger, result) /\ Truthy(Fetched(result))
    THEN /\ commitments' = MergedInto(commitments, Fetched(result))
         /\ peers' = update_peers_with_buckets(MergedInto(commitments, Fetched(result)),
                                               metagraph)
    ELSE UNCHANGED indexVars

\* if commitments: self.commitments = commitments; self.update_peers_with_buckets()
StoreCommitments(ledger, result) ==
    IF ~RefreshRaises(ledger, result) /\ Truthy(Fetched(result))
    THEN /\ commitments' = Fetched(result)
         /\ peers' = update_peers_with_buckets(Fetched(result), metagraph)
    ELSE UNCHANGED indexVars

RecordRefresh(kind, ledger, result) ==
    lastRefresh' =
        [kind |-> kind,
         size |-> IF ledger THEN Len(result) ELSE 0,
         failed |-> ~ledger,
         raised |-> RefreshRaises(ledger, result),
         anyDecodes |-> ledger /\ \E i \in 1..Len(result) : Decodes(metagraph, result[i]),
         allKept |-> \/ ~ledger
                     \/ /\ ~RefreshRaises(ledger, result)
                        /\ \A i \in 1..Len(result) :
                              Decodes(metagraph, result[i]) =>
                                  DictHas(Fetched(result), SlotOf(metagraph, result[i].key)),
         replaced |-> ~RefreshRaises(ledger, result) /\ Truthy(Fetched(result)),
         dropped |-> /\ ~RefreshRaises(ledger, result) /\ Truthy(Fetched(result))
                     /\ \E i \in 1..Len(commitments) :
                           ~DictHas(Fetched(result), commitments[i].k),
         unknown |-> ledger /\ \E i \in 1..Len(result) : ~KnownKey(metagraph, result[i].key)]

\* __init__: self.fetch_commitments(); what get_commitments raises leaves
\* fetch_commitments and __init__
fetch_commitments ==
    /\ pc = "fetch_commitments"
    /\ \E ledger \in BOOLEAN, result \in Results :
          /\ StoreCommitments(ledger, result)
          /\ RecordRefresh("sync", ledger, result)
          /\ pc' = IF RefreshRaises(ledger, result) THEN "raised"
                   ELSE "start_commitment_fetcher"
    /\ UNCHANGED <<envVars, identityVars, listenerVars, lastRead, clockVars, taskVars, lastPass>>

\* start_commitment_fetcher: a task is made only when there is none
start_commitment_fetcher_Always ==
    /\ fetch_task' = "running"
    /\ tasks' = tasks + 1
start_commitment_fetcher ==
    /\ fetch_task' = IF fetch_task = "None" THEN "running" ELSE fetch_task
    /\ tasks' = IF fetch_task = "None" THEN tasks + 1 ELSE tasks

ConstructStartFetcher ==
    /\ pc = "start_commitment_fetcher"
    /\ start_commitment_fetcher
    /\ pc' = "constructed"
    /\ UNCHANGED <<envVars, identityVars, listenerVars, lastRead, clockVars, indexVars, lastPass, lastRefresh>>

CallStartFetcher ==
    /\ pc = "constructed"
    /\ start_commitment_fetcher
    /\ UNCHANGED <<pc, envVars, identityVars, listenerVars, lastRead, clockVars, indexVars, lastPass, lastRefresh>>

\* _fetch_commitments_periodically: where the task stands after one turn
\* of the loop body; except Exception keeps every exception in
AfterIteration_Dies(raised) == IF raised THEN "dead" ELSE "sleeping"
AfterIteration(raised) == "sleeping"

\* one turn of while True, up to asyncio.sleep
PeriodicIteration ==
    /\ fetch_task = "running"
    /\ \E ledger \in BOOLEAN, result \in Results :
          /\ StoreCommitments(ledger, result)
          /\ RecordRefresh("periodic", ledger, result)
          /\ fetch_task' = AfterIteration(RefreshRaises(ledger, result))
    /\ UNCHANGED <<pc, tasks, envVars, identityVars, listenerVars, lastRead, clockVars, lastPass>>

\* asyncio.sleep(self.fetch_interval) returns
PeriodicWake ==
    /\ fetch_task = "sleeping"
    /\ fetch_task' = "running"
    /\ UNCHANGED <<pc, tasks, envVars, identityVars, listenerVars, lastRead, clockVars, indexVars, lastPass, lastRefresh>>

(***************************************************************************)
(* The surroundings: other participants publish, the caller refreshes the  *)
(* metagraph.                                                              *)
(***************************************************************************)
PeerPublishes ==
    /\ published < MaxPublish
    /\ \E h \in Publishers, p \in PeerPayloads :
          /\ chain[h] # p
          /\ chain' = [chain EXCEPT ![h] = p]
    /\ published' = published + 1
    /\ lastPass' = [lastPass EXCEPT !.quiet = FALSE]
    /\ UNCHANGED <<metagraph, synced, pc, identityVars, listenerVars, lastRead, clockVars, indexVars,
                   taskVars, lastRefresh>>

MetagraphSync ==
    /\ synced < MaxSync
    /\ \E m \in Metagraphs : m # metagraph /\ metagraph' = m
    /\ synced' = synced + 1
    /\ lastPass' = [lastPass EXCEPT !.quiet = FALSE]
    /\ UNCHANGED <<chain, published, pc, identityVars, listenerVars, lastRead, clockVars, indexVars,
                   taskVars, lastRefresh>>

(***************************************************************************)
(* The methods of a built manager, called one at a time by its owner.      *)
(***************************************************************************)
\* commit(self.wallet, self.bucket); marked: the ledger gives the committed
\* field back with the marker in front
CallCommit ==
    /\ pc = "constructed"
    /\ wallet # "None"
    /\ \E marked \in BOOLEAN :
          chain' = [chain EXCEPT ![wallet] = IF marked THEN Committed[bucket]
                                             ELSE CommittedBare[bucket]]
    /\ UNCHANGED <<metagraph, published, synced, pc, identityVars, listenerVars,
                   clockVars, indexVars, taskVars, lastPass, lastRefresh, lastRead>>

\* get_commitment(uid)
CallGetCommitment ==
    /\ pc = "constructed"
    /\ \E uid \in 0..(Len(metagraph.hotkeys) - 1), rpc \in BOOLEAN :
          lastRead' =
              [op |-> "get_commitment", uid |-> uid, answered |-> rpc,
               ok |-> get_commitment(chain, metagraph, uid, rpc).ok,
               bucket |-> get_commitment(chain, metagraph, uid, rpc).bucket,
               index |-> <<>>]
    /\ UNCHANGED <<pc, envVars, identityVars, listenerVars, clockVars, indexVars,
                   taskVars, lastPass, lastRefresh>>

\* get_commitments()
CallGetCommitments ==
    /\ pc = "constructed"
    /\ \E ledger \in BOOLEAN, result \in Results :
          lastRead' =
              [op |-> "get_commitments", uid |-> -1, answered |-> ledger,
               ok |-> ~RefreshRaises(ledger, result),
               bucket |-> NoBucket,
               index |-> IF RefreshRaises(ledger, result) THEN <<>> ELSE Fetched(result)]
    /\ UNCHANGED <<pc, envVars, identityVars, listenerVars, clockVars, indexVars,
                   taskVars, lastPass, lastRefresh>>

\* another participant's field changes on the ledger
LedgerDelivers ==
    /\ \E h \in Publishers, p \in CodecPayloads :
          /\ chain[h] # p
          /\ chain' = [chain EXCEPT ![h] = p]
    /\ UNCHANGED <<metagraph, published, synced, pc, identityVars, listenerVars,
                   clockVars, indexVars, taskVars, lastPass, lastRefresh, lastRead>>

\* a built manager with an identity, its local field not yet on the ledger
InitCodec ==
    /\ metagraph = FirstMetagraph
    /\ hparams = [blocks_per_window |-> 100, window_length |-> 100]
    /\ wallet = LocalKey
    /\ bucket \in CodecBuckets
    /\ chain = [h \in Hotkeys |-> NoEntry]
    /\ Built
    /\ InitManager
    /\ NoListener

NextCodec ==
    \/ CallCommit
    \/ CallGetCommitment
    \/ CallGetCommitments
    \/ LedgerDelivers

SpecCodec == InitCodec /\ [][NextCodec]_vars

(***************************************************************************)
(* block_listener: handler, the callback of subscribe_block_headers, in    *)
(* the listener's thread.  Its two writes are two steps.  The callback     *)
(* runs while subscribe_block_headers is running.                          *)
(***************************************************************************)
Blocks == 0..MaxBlock

HParams ==
    { [blocks_per_window |-> 100, window_length |-> 100],
      [blocks_per_window |-> 100, window_length |-> 50],
      [blocks_per_window |-> 7, window_length |-> 7] }

\* the window the handler works out from self.current_block
HandlerWindow(block, hp) == IntDiv(block, hp.blocks_per_window)

\* self.current_block = int(event["header"]["number"])
HandlerWriteBlock ==
    /\ listener = "subscribed"
    /\ hpc = "idle"
    /\ \E number \in Blocks :
          /\ event' = number
          /\ current_block' = number
    /\ hpc' = "window"
    /\ UNCHANGED <<hparams, current_window, new_window_event, envVars, identityVars, listenerVars, lastRead, indexVars,
                   taskVars, pc, lastPass, lastRefresh>>

\* if int(self.current_block / blocks_per_window) != self.current_window: ...
HandlerWriteWindow ==
    /\ hpc = "window"
    /\ current_window' =
          IF HandlerWindow(current_block, hparams) # current_window
          THEN HandlerWindow(current_block, hparams)
          ELSE current_window
    /\ hpc' = "idle"
    /\ UNCHANGED <<hparams, current_block, event, new_window_event, envVars, identityVars, listenerVars, lastRead, indexVars,
                   taskVars, pc, lastPass, lastRefresh>>

\* a built manager whose listener has subscribed, before the first block
InitClock ==
    /\ metagraph = FirstMetagraph
    /\ hparams \in HParams
    /\ wallet = "None"
    /\ bucket = NoBucket
    /\ chain = [h \in Hotkeys |-> NoEntry]
    /\ Built
    /\ InitManager
    /\ stop_event = "clear"
    /\ listener = "subscribed"

NextClock ==
    \/ HandlerWriteBlock
    \/ HandlerWriteWindow

SpecClock == InitClock /\ [][NextClock]_vars

(***************************************************************************)
(* block_listener(loop), the loop around the subscription, in a thread of  *)
(* its own.  listener says where it stands:                                *)
(*   "check"       at `while not self.stop_event.is_set()`                 *)
(*   "subscribing" about to call subscribe_block_headers(handler)          *)
(*   "subscribed"  inside that call, which calls handler for every block   *)
(*   "backoff"     in time.sleep(1) of the exception handler               *)
(*   "exited"      the loop condition was false, "broke" the loop was left *)
(*   by break, "raised" an exception left block_listener                   *)
(* __init__ defines no stop_event: it is there when the owner of the       *)
(* manager has assigned one.                                               *)
(***************************************************************************)
ListenerStart ==
    /\ pc = "constructed"
    /\ listener = "None"
    /\ listener' = "check"
    /\ UNCHANGED <<stop_event, pc, envVars, identityVars, clockVars, indexVars,
                   taskVars, lastPass, lastRefresh, lastRead>>

\* while not self.stop_event.is_set(): the attribute is read
AfterCheck(stop) ==
    IF stop = "undefined" THEN "raised"
    ELSE IF stop = "set" THEN "exited"
    ELSE "subscribing"

ListenerCheck ==
    /\ listener = "check"
    /\ listener' = AfterCheck(stop_event)
    /\ UNCHANGED <<stop_event, pc, envVars, identityVars, clockVars, indexVars,
                   taskVars, lastPass, lastRefresh, lastRead>>

\* subscribe_block_headers(handler) is called: the subscription is made, or
\* the call raises
ListenerSubscribe ==
    /\ listener = "subscribing"
    /\ \E outcome \in {"established", "raises"} :
          listener' = IF outcome = "established" THEN "subscribed" ELSE "backoff"
    /\ UNCHANGED <<stop_event, pc, envVars, identityVars, clockVars, indexVars,
                   taskVars, lastPass, lastRefresh, lastRead>>

\* subscribe_block_headers(handler) ends: it returns, and break leaves the
\* loop, or it raises, and except Exception goes to time.sleep(1)
AfterSubscription(how) == IF how = "returns" THEN "broke" ELSE "backoff"

SubscriptionEnds ==
    /\ listener = "subscribed"
    /\ hpc = "idle"
    /\ \E how \in {"returns", "raises"} : listener' = AfterSubscription(how)
    /\ UNCHANGED <<stop_event, pc, envVars, identityVars, clockVars, indexVars,
                   taskVars, lastPass, lastRefresh, lastRead>>

\* time.sleep(1) returns
ListenerBackoff ==
    /\ listener = "backoff"
    /\ listener' = "check"
    /\ UNCHANGED <<stop_event, pc, envVars, identityVars, clockVars, indexVars,
                   taskVars, lastPass, lastRefresh, lastRead>>

\* the owner sets the stop event
StopRaised ==
    /\ stop_event = "clear"
    /\ stop_event' = "set"
    /\ UNCHANGED <<listener, pc, envVars, identityVars, clockVars, indexVars,
                   taskVars, lastPass, lastRefresh, lastRead>>

\* a built manager, its stop_event left out or assigned by the owner
InitListener ==
    /\ metagraph = FirstMetagraph
    /\ hparams = [blocks_per_window |-> 100, window_length |-> 100]
    /\ wallet = "None"
    /\ bucket = NoBucket
    /\ chain = [h \in Hotkeys |-> NoEntry]
    /\ Built
    /\ InitManager
    /\ stop_event \in {"undefined", "clear"}
    /\ listener = "None"

NextListener ==
    \/ ListenerStart
    \/ ListenerCheck
    \/ ListenerSubscribe
    \/ HandlerWriteBlock
    \/ HandlerWriteWindow
    \/ SubscriptionEnds
    \/ ListenerBackoff
    \/ StopRaised

SpecListener == InitListener /\ [][NextListener]_vars

\* the listener's thread runs: every step of its own is taken in the end.
\* When the ledger sends a block, and when a subscription ends, is for the
\* ledger to say.
FairListener ==
    /\ SpecListener
    /\ WF_vars(ListenerCheck)
    /\ WF_vars(ListenerSubscribe)
    /\ WF_vars(HandlerWriteWindow)
    /\ WF_vars(ListenerBackoff)

\* the manager with an identity, while the caller changes the metagraph
Next ==
    \/ ConstructTryCommit
    \/ fetch_commitments
    \/ ConstructStartFetcher
    \/ CallTryCommit
    \/ CallStartFetcher
    \/ PeriodicIteration
    \/ PeriodicWake
    \/ MetagraphSync

Spec == Init /\ [][Next]_vars

\* the refreshes of a manager, while other participants publish and the
\* caller changes the metagraph
NextRefresh ==
    \/ fetch_commitments
    \/ ConstructStartFetcher
    \/ CallStartFetcher
    \/ PeriodicIteration
    \/ PeriodicWake
    \/ PeerPublishes
    \/ MetagraphSync

SpecRefresh == InitRefresh /\ [][NextRefresh]_vars

\* the periodic task on a running event loop: the loop runs the task when it
\* can go on, and asyncio.sleep returns
FairRefresh ==
    /\ SpecRefresh
    /\ WF_vars(PeriodicIteration)
    /\ WF_vars(PeriodicWake)

(***************************************************************************)
(* The steps the properties speak of.                                      *)
(***************************************************************************)
\* a refresh: the synchronous one of __init__, or a turn of the periodic task
IsSyncRefresh == pc = "fetch_commitments" /\ pc' # pc
IsPeriodicRefresh == fetch_task = "running" /\ fetch_task' # fetch_task
IsRefresh == IsSyncRefresh \/ IsPeriodicRefresh

\* a pass of try_commit that is no stuttering step
IsPass == lastPass' # lastPass /\ lastPass'.quiet

\* the record a text of 128 characters stands for, as the documentation
\* slices it, and the fields a pass compares
ObservedTuple(text) ==
    <<Slice(text, 0, 32), Slice(text, 32, 64), Slice(text, 64, 128)>>
IntendedTuple(b) == <<b.name, b.access_key_id, b.secret_access_key>>
Encoding(b) == b.account_id \o b.access_key_id \o b.secret_access_key

\* the pass read a record for the local slot and its fields equal the
\* intended ones
Matches(pass, b) ==
    /\ pass.read = "ok"
    /\ Len(pass.text) = 128
    /\ ObservedTuple(pass.text) = IntendedTuple(b)

\* a direct call of a read method
IsPointRead == lastRead' # lastRead /\ lastRead'.op = "get_commitment"
IsBulkRead == lastRead' # lastRead /\ lastRead'.op = "get_commitments"

\* the record has the credentials of b, and the account id as its name
SameCredentials(record, b) ==
    /\ record.account_id = b.account_id
    /\ record.access_key_id = b.access_key_id
    /\ record.secret_access_key = b.secret_access_key
    /\ record.name = b.account_id

\* the text a field carries, as the documentation reads it: the marker cut
\* off, hex decoded
WireText(e) == Utf8Decode(FromHex(WireHex(e)))
WireRecords == [e \in WellFormedSet |-> BucketFromConcatenated(WireText(e))]

\* a dict as the set of its pairs, and the pairs the documentation has one
\* refresh decode from the ledger: for every known participant with a
\* well-formed field, its slot and the record sliced from the text
AsPairs(d) == {<<d[i].k, d[i].v>> : i \in 1..Len(d)}
DecodedPairs(mg, ch) ==
    { <<SlotOf(mg, h), WireRecords[ch[h]]>> :
        h \in {k \in Hotkeys : KnownKey(mg, k) /\ WellFormed(ch[k])} }

\* the stake the metagraph holds for a slot
StakeAt(mg, slot) == mg.S[CHOOSE i \in 1..Len(mg.uids) : mg.uids[i] = slot]
Slots == {0, 1, 2}
SeqRange(q) == {q[i] : i \in 1..Len(q)}

C2_Idempotence ==
    [][(/\ IsPass
        /\ lastPass.ran /\ lastPass.quiet
        /\ Len(lastPass.submits) = 1 /\ lastPass.accepted
        /\ lastPass'.read = "ok")
          => lastPass'.submits = <<>>]_vars

(***************************************************************************)
(* C3  Publish on mismatch: a pass for a local key the metagraph holds,    *)
(* in which the read fails, or no record of 128 characters is there, or    *)
(* the observed fields differ from the intended ones, submits once, for    *)
(* the configured netuid, account id then access key id then secret.       *)
(***************************************************************************)
C3_PublishOnMismatch ==
    (/\ lastPass.ran
     /\ lastPass.found
     /\ ~Matches(lastPass, bucket))
        => /\ Len(lastPass.submits) = 1
           /\ lastPass.submits[1].netuid = Netuid
           /\ lastPass.submits[1].hotkey = wallet
           /\ lastPass.submits[1].data = Encoding(bucket)

\* the pass read a record of 128 characters whose fields differ from the
\* intended ones, and submitted
C3_Witness ==
    /\ lastPass.ran
    /\ lastPass.found
    /\ lastPass.read = "ok"
    /\ Len(lastPass.text) = 128
    /\ ObservedTuple(lastPass.text) # IntendedTuple(bucket)
    /\ Len(lastPass.submits) = 1

(***************************************************************************)
(* C4  No-op on match: a pass that reads a record whose fields equal the   *)
(* intended ones submits nothing and leaves the chain, the index, the      *)
(* peers and the clock as they were.                                       *)
(***************************************************************************)
C4_NoOpOnMatch ==
    [][(IsPass /\ Matches(lastPass', bucket))
          => /\ lastPass'.submits = <<>>
             /\ lastPass'.raised = "None"
             /\ UNCHANGED <<chain, commitments, peers, current_block, current_window>>]_vars

\* a pass found the record the pass before it had published
C4_Witness ==
    /\ lastPass.ran
    /\ Matches(lastPass, bucket)
    /\ lastPass.submits = <<>>
    /\ chain[wallet] = Committed[bucket]

(***************************************************************************)
(* C5  Identity not found: a pass for a local key the metagraph does not   *)
(* hold fails with IdentityNotFound, reads nothing and submits nothing.    *)
(* (The code catches the ValueError of list.index and commits.)            *)
(***************************************************************************)
C5_IdentityNotFound ==
    (lastPass.ran /\ ~lastPass.found)
        => /\ lastPass.raised = "IdentityNotFound"
           /\ lastPass.read = "none"
           /\ lastPass.submits = <<>>

(***************************************************************************)
(* C6  Peer classification: when a refresh has replaced the index, a slot  *)
(* is in self.peers exactly if it is a key of the index and its stake in   *)
(* the metagraph is at most 10000.                                         *)
(***************************************************************************)
C6_PeerClassification ==
    [][(IsRefresh /\ lastRefresh'.replaced)
          => \A slot \in Slots :
                slot \in SeqRange(peers')
                    <=> /\ slot \in SeqRange(DictKeys(commitments'))
                        /\ StakeAt(metagraph, slot) <= 10000]_vars

\* the index holds slots 0, 1 and 2 with stakes 500, 20000 and 9999, and the
\* peers are 0 and 2
C6_Witness ==
    /\ lastRefresh.replaced
    /\ metagraph = FirstMetagraph
    /\ SeqRange(DictKeys(commitments)) = {0, 1, 2}
    /\ SeqRange(peers) = {0, 2}

(***************************************************************************)
(* C7  Windowing: when the handler has finished with a notification for    *)
(* block b, current_block is b and current_window is floor(b / window      *)
(* length), the value block_to_window(b) returns.                          *)
(* (The handler divides by hparams.blocks_per_window, block_to_window by   *)
(* hparams.window_length.)                                                 *)
(***************************************************************************)
C7_Windowing ==
    (hpc = "idle" /\ event >= 0)
        => /\ current_block = event
           /\ current_window = event \div hparams.blocks_per_window
           /\ current_window = block_to_window(event, hparams)

(***************************************************************************)
(* C8  Per-record containment: get_commitments never raises over an entry  *)
(* it cannot turn into a record, and every well-formed entry of a known    *)
(* participant in the batch is in the index it returns.                    *)
(* (An entry whose first field is an empty dict, or whose field is no      *)
(* string, raises outside the try block.)                                  *)
(***************************************************************************)
C8_PerRecordContainment ==
    (lastRefresh.kind # "none" /\ ~lastRefresh.failed)
        => /\ ~lastRefresh.raised
           /\ lastRefresh.allKept

(***************************************************************************)
(* C9  Scheduled refresh survives failure: a turn of the periodic task     *)
(* that fails leaves the index and the peers as they were and the task     *)
(* asleep, a sleeping task runs again, and a later turn that does not fail *)
(* and finds a record that decodes fills the index.                        *)
(***************************************************************************)
C9_RefreshSurvivesFailure ==
    /\ [][(IsPeriodicRefresh /\ lastRefresh'.raised)
             => UNCHANGED indexVars /\ fetch_task' = "sleeping"]_vars
    /\ [][(IsPeriodicRefresh /\ ~lastRefresh'.raised /\ lastRefresh'.anyDecodes)
             => lastRefresh'.replaced /\ commitments' # <<>>]_vars
    /\ [](fetch_task \in {"None", "running", "sleeping"})
    /\ (fetch_task = "sleeping" ~> fetch_task = "running")

\* after a turn that failed, the task is running again
C9_Witness ==
    /\ lastRefresh.kind = "periodic"
    /\ lastRefresh.raised
    /\ fetch_task = "running"

(***************************************************************************)
(* C10  Publish failure is contained: a pass whose submission the chain    *)
(* rejects, or in which subtensor.commit raises, submits once, raises      *)
(* nothing, and __init__ goes on to fetch_commitments.                     *)
(* (commit is called in the exception handler of try_commit: what it       *)
(* raises leaves try_commit and __init__.)                                 *)
(***************************************************************************)
C10_PublishFailureContained ==
    [][(IsPass /\ lastPass'.submits # <<>> /\ ~lastPass'.accepted)
          => /\ Len(lastPass'.submits) = 1
             /\ lastPass'.raised = "None"
             /\ (pc = "try_commit" => pc' = "fetch_commitments")]_vars

(***************************************************************************)
(* C11  Record round trip: for a record of valid widths, reading back the  *)
(* field commit has published, by get_commitment for the local slot and by *)
(* get_commitments (the field with or without the marker), succeeds and    *)
(* gives a record with the same account id, access key id and secret,      *)
(* named by its account id.                                                *)
(* (commit does not pad: with a secret shorter than 64 characters the text *)
(* is shorter than 128 and both reads refuse it; get_commitments also      *)
(* strips white space off a secret that ends with it.)                     *)
(***************************************************************************)
C11_RoundTrip ==
    [][/\ (/\ IsPointRead
           /\ lastRead'.answered
           /\ lastRead'.uid = SlotOf(metagraph, wallet)
           /\ chain[wallet] = Committed[bucket])
             => /\ lastRead'.ok
                /\ SameCredentials(lastRead'.bucket, bucket)
       /\ (/\ IsBulkRead
           /\ lastRead'.answered
           /\ chain[wallet] \in {Committed[bucket], CommittedBare[bucket]})
             => /\ lastRead'.ok
                /\ DictHas(lastRead'.index, SlotOf(metagraph, wallet))
                /\ SameCredentials(DictGet(lastRead'.index, SlotOf(metagraph, wallet)),
                                   bucket)]_vars

(***************************************************************************)
(* C12  Length invariant of decoding: a field whose text, the marker cut   *)
(* off and hex decoded, is not 128 characters long gives no record:        *)
(* get_commitment fails for it (a field with the marker, as the point read *)
(* expects it) and get_commitments returns no entry for its slot; every    *)
(* entry get_commitments returns is the slicing of the 128 characters the  *)
(* ledger delivered.                                                       *)
(* (get_commitments strips white space before it checks the length: a text *)
(* of 129 or 130 characters that is 128 characters between white space     *)
(* gives a record.)                                                        *)
(***************************************************************************)
C12_LengthInvariant ==
    [][/\ (/\ IsPointRead
           /\ chain[metagraph.hotkeys[lastRead'.uid + 1]] # NoEntry
           /\ StartsWith0x(chain[metagraph.hotkeys[lastRead'.uid + 1]].v)
           /\ ~WellFormed(chain[metagraph.hotkeys[lastRead'.uid + 1]]))
             => ~lastRead'.ok
       /\ IsBulkRead
             => \A h \in Hotkeys :
                   (/\ KnownKey(metagraph, h)
                    /\ DictHas(lastRead'.index, SlotOf(metagraph, h)))
                      => /\ WellFormed(chain[h])
                         /\ DictGet(lastRead'.index, SlotOf(metagraph, h))
                               = WireRecords[chain[h]]]_vars

(***************************************************************************)
(* C13  Window-boundary signal: when the handler finishes a notification   *)
(* whose window, floor(block / window length), is not current_window, it   *)
(* writes that window to current_window and sets new_window_event, which   *)
(* releases whoever waits for it.                                          *)
(* (handler never sets new_window_event, and nothing else does.)           *)
(***************************************************************************)
C13_WindowBoundarySignal ==
    [][(/\ hpc = "window" /\ hpc' = "idle"
        /\ block_to_window(current_block, hparams) # current_window)
          => /\ current_window' = block_to_window(current_block, hparams)
             /\ new_window_event']_vars

(***************************************************************************)
(* C14  Block-listener retry: while the stop event is not set, the         *)
(* listener has not left its loop, and a subscription that failed, by the  *)
(* call raising or by the subscription ending, is followed after the sleep *)
(* by another call of subscribe_block_headers.                             *)
(* (When subscribe_block_headers returns, break leaves the loop; with no   *)
(* stop_event assigned, the loop condition raises AttributeError.)         *)
(***************************************************************************)
C14_ListenerRetry ==
    /\ [](stop_event # "set" => listener \notin {"exited", "broke", "raised"})
    /\ [][(listener = "subscribed" /\ listener' # listener /\ stop_event # "set")
             => listener' = "backoff"]_vars
    /\ ((listener = "backoff" /\ stop_event # "set")
           ~> (listener = "subscribing" \/ stop_event = "set"))

(***************************************************************************)
(* C15  Block-listener cancellation: once the stop event is set, a started *)
(* listener ends in the end, from the retry loop and from inside a         *)
(* subscription, and it does not go from the loop condition to another     *)
(* call of subscribe_block_headers.                                        *)
(* (Inside subscribe_block_headers nothing reads the stop event: the       *)
(* listener stays there for as long as the subscription lasts.)            *)
(***************************************************************************)
C15_ListenerCancellation ==
    /\ [][stop_event = "set" => ~(listener = "check" /\ listener' = "subscribing")]_vars
    /\ ((stop_event = "set" /\ listener # "None")
           ~> listener \in {"exited", "broke", "raised"})

(***************************************************************************)
(* C16  Monotonic clock: current_block never decreases, whatever block     *)
(* numbers the notifications carry.                                        *)
(* (handler writes the number of every notification as it comes.)          *)
(***************************************************************************)
C16_MonotonicClock == [][current_block' >= current_block]_vars

(***************************************************************************)
(* C17  Clock consistency for a concurrent reader: in every state, those   *)
(* between the handler's two writes included, current_window is            *)
(* floor(current_block / window length).                                   *)
(* (handler writes current_block, then current_window, with no lock        *)
(* around the two.)                                                        *)
(***************************************************************************)
C17_ClockConsistency == current_window = block_to_window(current_block, hparams)

(***************************************************************************)
(* C18  Wholesale replacement of the index: self.commitments is empty, as  *)
(* __init__ leaves it, until a refresh assigns it; every change of it is   *)
(* made by one refresh in one step and leaves exactly the pairs that       *)
(* refresh decoded, each slot once; a slot the index held that has no      *)
(* entry that decodes in a refresh that replaces the index is gone after   *)
(* it.                                                                     *)
(***************************************************************************)
C18_WholesaleReplacement ==
    /\ [](lastRefresh.kind = "none" => commitments = <<>>)
    /\ [][commitments' # commitments => (IsRefresh /\ lastRefresh'.replaced)]_vars
    /\ [][(IsRefresh /\ lastRefresh'.replaced)
             => /\ AsPairs(commitments') = DecodedPairs(metagraph, chain)
                /\ Cardinality(SeqRange(DictKeys(commitments'))) = Len(commitments')
                /\ \A slot \in SeqRange(DictKeys(commitments)) :
                      (\A h \in Hotkeys :
                          (KnownKey(metagraph, h) /\ SlotOf(metagraph, h) = slot)
                              => ~WellFormed(chain[h]))
                        => ~DictHas(commitments', slot)]_vars

\* a refresh has replaced an index by one that lacks a slot the old one held
C18_Witness ==
    /\ lastRefresh.replaced
    /\ lastRefresh.dropped
    /\ commitments # <<>>

(***************************************************************************)
(* C19  Start-up ordering: __init__ with a wallet and a bucket runs one    *)
(* pass of try_commit, then one synchronous refresh, then                  *)
(* start_commitment_fetcher, each once and in that order: no refresh       *)
(* before the pass, no task and no scheduled refresh before the            *)
(* synchronous refresh.  When __init__ has returned the pass and the       *)
(* synchronous refresh are done, the index holds what that refresh         *)
(* fetched if it fetched anything, and one task exists; a later call of    *)
(* start_commitment_fetcher makes no second one.                           *)
(* (__init__ does not return when commit or get_commitments raises.)       *)
(***************************************************************************)
C19_StartupOrdering ==
    /\ [](lastRefresh.kind # "none" => lastPass.ran)
    /\ [](tasks > 0 => lastRefresh.kind # "none" /\ ~(lastRefresh.kind = "sync" /\ lastRefresh.raised))
    /\ [](pc = "constructed" <=> tasks = 1)
    /\ [](tasks <= 1 /\ (tasks = 1 <=> fetch_task # "None"))
    /\ [][(IsPass /\ pc # "constructed")
             => pc = "try_commit" /\ pc' \in {"fetch_commitments", "raised"}]_vars
    /\ [][(lastRefresh' # lastRefresh /\ lastRefresh'.kind = "sync")
             => pc = "fetch_commitments" /\ pc' \in {"start_commitment_fetcher", "raised"}]_vars
    /\ [][(pc = "fetch_commitments" /\ pc' = "start_commitment_fetcher")
             => /\ lastRefresh'.kind = "sync"
                /\ AsPairs(commitments') = DecodedPairs(metagraph, chain)]_vars
    /\ [][(pc = "start_commitment_fetcher" /\ pc' # pc)
             => pc' = "constructed" /\ fetch_task' = "running" /\ tasks' = 1]_vars
    /\ [][IsPeriodicRefresh => pc = "constructed"]_vars

\* __init__ has returned after a pass that published and a synchronous
\* refresh that filled the index; the one task is asleep, so
\* start_commitment_fetcher can be called with a task there
C19_Witness ==
    /\ pc = "constructed"
    /\ lastPass.ran /\ lastPass.accepted
    /\ commitments # <<>>
    /\ fetch_task = "sleeping"
    /\ tasks = 1

\* an entry of a hotkey no metagraph holds, alone in a batch
UnknownKeyInert ==
    \A mg \in Metagraphs, e \in Envelopes \ {NoEntry} :
        get_commitments(<<[key |-> "k9", value |-> e]>>, mg)
            = [raised |-> FALSE, commitments |-> <<>>]

(***************************************************************************)
(* C20  Only known participants are indexed: every key of the index a      *)
(* refresh stores is the slot the metagraph, as it is during that refresh, *)
(* gives to the hotkey of an entry in the batch; an entry of a hotkey the  *)
(* metagraph does not hold adds nothing to the index and raises nothing,   *)
(* whatever its field holds; and a refresh leaves the metagraph as it is.  *)
(***************************************************************************)
C20_OnlyKnownIndexed ==
    /\ []UnknownKeyInert
    /\ [][IsRefresh => metagraph' = metagraph]_vars
    /\ [][(IsRefresh /\ lastRefresh'.replaced)
             => \A slot \in SeqRange(DictKeys(commitments')) :
                   \E h \in Present : KnownKey(metagraph, h) /\ SlotOf(metagraph, h) = slot]_vars
    /\ [][(IsRefresh /\ ~lastRefresh'.failed
             /\ \A h \in Present : ~KnownKey(metagraph, h))
             => ~lastRefresh'.raised /\ UNCHANGED indexVars]_vars

\* a refresh whose batch held an entry of a hotkey the metagraph does not
\* hold has replaced the index with the entries of the others
C20_Witness ==
    /\ lastRefresh.replaced
    /\ lastRefresh.unknown
    /\ commitments # <<>>

====
